---- MODULE Spec2Model ----
(***************************************************************************)
(* Token lifecycle and transaction synchronisation of the finance          *)
(* dashboard: the sqlite store (database/db_manager.py), the credential    *)
(* vault (utils/encryption.py), the connection manager                     *)
(* (bank_integration/auth_manager.py), the provider client                 *)
(* (bank_integration/truelayer_api.py), the sync engine                    *)
(* (bank_integration/transaction_manager.py) and the connect page          *)
(* (components/bank_connection.py).                                        *)
(*                                                                         *)
(* Time is counted in ticks, TicksPerDay ticks to a day; a timestamp       *)
(* column holds the tick (isoformat / fromisoformat are inverse on         *)
(* datetimes).  Text that the code lower-cases or searches is a sequence   *)
(* of one-character strings.  Amounts are integers (minor units).          *)
(***************************************************************************)
EXTENDS Integers, Sequences, FiniteSets, Bags, TLC

VARIABLES now, bank_connections, bank_accounts, transactions, usedIds,
          userCategory, lastCall,
          fernet, budgets, batch, threads, token_endpoint, session, history

vars == <<now, bank_connections, bank_accounts, transactions, usedIds,
          userCategory, lastCall,
          fernet, budgets, batch, threads, token_endpoint, session, history>>

(* SQL NULL and Python None, one per kind of value: a token or an id is a  *)
(* string, a text is a sequence of characters, a timestamp is a tick, a    *)
(* row or a response is a record.                                          *)
NULL == "NULL"
NoText == <<>>
NoTime == 0
None == [none |-> TRUE]
\* the missing value pandas puts where a fetched row lacks a column the other
\* rows of the frame have: a float, not a text
NaN == <<"nan">>

----------------------------------------------------------------------------
(* Bounds of the model *)

MaxTicks == 2
MaxBatch == 2
MaxUuids == 2
MaxWords == 2

(* Clock *)

TicksPerDay == 2
Epoch == 1000
Days(n) == n * TicksPerDay

FullSyncDays == 365
LookBackDays == 7
DefaultDays == 90

\* datetime.date(): the day a tick falls in
DateOf(t) == t \div TicksPerDay

----------------------------------------------------------------------------
(* Text *)

UpperToLower ==
  [A |-> "a", B |-> "b", C |-> "c", D |-> "d", E |-> "e", F |-> "f",
   G |-> "g", H |-> "h", I |-> "i", J |-> "j", K |-> "k", L |-> "l",
   M |-> "m", N |-> "n", O |-> "o", P |-> "p", Q |-> "q", R |-> "r",
   S |-> "s", T |-> "t", U |-> "u", V |-> "v", W |-> "w", X |-> "x",
   Y |-> "y", Z |-> "z"]

\* str.lower()
Lower(s) ==
  [i \in 1..Len(s) |->
     IF s[i] \in DOMAIN UpperToLower THEN UpperToLower[s[i]] ELSE s[i]]

\* k in d
Contains(d, k) ==
  \E i \in 0..(Len(d) - Len(k)) : SubSeq(d, i + 1, i + Len(k)) = k

\* any(keyword in description for keyword in ks)
AnyKeyword(d, ks) == \E k \in ks : Contains(d, k)

IncomeKeywords ==
  { <<"s","a","l","a","r","y">>, <<"p","a","y","r","o","l","l">>,
    <<"w","a","g","e">> }
GroceriesKeywords ==
  { <<"g","r","o","c","e","r","y">>, <<"f","o","o","d">>,
    <<"s","u","p","e","r","m","a","r","k","e","t">> }
DiningKeywords ==
  { <<"r","e","s","t","a","u","r","a","n","t">>, <<"c","a","f","e">>,
    <<"t","a","k","e","a","w","a","y">> }
TransportKeywords ==
  { <<"u","b","e","r">>, <<"t","a","x","i">>,
    <<"t","r","a","n","s","p","o","r","t">>, <<"t","u","b","e">>,
    <<"t","r","a","i","n">> }
ShoppingKeywords ==
  { <<"a","m","a","z","o","n">>, <<"e","b","a","y">>,
    <<"s","h","o","p","p","i","n","g">> }
HousingKeywords ==
  { <<"r","e","n","t">>, <<"m","o","r","t","g","a","g","e">>,
    <<"h","o","u","s","i","n","g">> }
UtilitiesKeywords ==
  { <<"u","t","i","l","i","t","y">>,
    <<"e","l","e","c","t","r","i","c","i","t","y">>, <<"g","a","s">>,
    <<"w","a","t","e","r">>, <<"i","n","t","e","r","n","e","t">> }

uncategorized == <<"u","n","c","a","t","e","g","o","r","i","z","e","d">>
income == <<"i","n","c","o","m","e">>
groceries == <<"g","r","o","c","e","r","i","e","s">>
dining == <<"d","i","n","i","n","g">>
transport == <<"t","r","a","n","s","p","o","r","t">>
shopping == <<"s","h","o","p","p","i","n","g">>
housing == <<"h","o","u","s","i","n","g">>
utilities == <<"u","t","i","l","i","t","i","e","s">>

\* the keyword chain of sync_account_transactions
SyncHeuristic(description) ==
  IF AnyKeyword(description, IncomeKeywords) THEN income
  ELSE IF AnyKeyword(description, GroceriesKeywords) THEN groceries
  ELSE IF AnyKeyword(description, DiningKeywords) THEN dining
  ELSE IF AnyKeyword(description, TransportKeywords) THEN transport
  ELSE IF AnyKeyword(description, ShoppingKeywords) THEN shopping
  ELSE IF AnyKeyword(description, HousingKeywords) THEN housing
  ELSE IF AnyKeyword(description, UtilitiesKeywords) THEN utilities
  ELSE uncategorized

\* the keyword chain applied to every fetched row
SyncCategoryHeuristicOnly(row) == SyncHeuristic(Lower(row.description))

\* category of one fetched row: the provider's, lower-cased, else the heuristic
SyncCategory(row) ==
  IF row.category # NoText
  THEN Lower(row.category)
  ELSE SyncHeuristic(Lower(row.description))

\* the keyword lists of categorize_transactions
GroceriesKeywordsOfFrame ==
  { <<"g","r","o","c","e","r","y">>, <<"f","o","o","d">>,
    <<"s","u","p","e","r","m","a","r","k","e","t">>, <<"t","e","s","c","o">>,
    <<"s","a","i","n","s","b","u","r","y">>, <<"a","s","d","a">>,
    <<"w","a","i","t","r","o","s","e">> }
DiningKeywordsOfFrame ==
  { <<"r","e","s","t","a","u","r","a","n","t">>, <<"c","a","f","e">>,
    <<"t","a","k","e","a","w","a","y">>,
    <<"m","c","d","o","n","a","l","d","s">>, <<"p","i","z","z","a">>,
    <<"b","u","r","g","e","r">> }
TransportKeywordsOfFrame ==
  { <<"u","b","e","r">>, <<"t","a","x","i">>,
    <<"t","r","a","n","s","p","o","r","t">>, <<"t","u","b","e">>,
    <<"t","r","a","i","n">>, <<"b","u","s">>, <<"o","y","s","t","e","r">> }
ShoppingKeywordsOfFrame ==
  { <<"a","m","a","z","o","n">>, <<"e","b","a","y">>,
    <<"s","h","o","p","p","i","n","g">>, <<"s","t","o","r","e">>,
    <<"s","h","o","p">> }
HousingKeywordsOfFrame ==
  { <<"r","e","n","t">>, <<"m","o","r","t","g","a","g","e">>,
    <<"h","o","u","s","i","n","g">>, <<"h","o","m","e">> }
UtilitiesKeywordsOfFrame ==
  { <<"u","t","i","l","i","t","y">>, <<"u","t","i","l","i","t","i","e","s">>,
    <<"e","l","e","c","t","r","i","c","i","t","y">>, <<"g","a","s">>,
    <<"w","a","t","e","r">>, <<"i","n","t","e","r","n","e","t">>,
    <<"b","r","o","a","d","b","a","n","d">>, <<"p","h","o","n","e">> }
EntertainmentKeywords ==
  { <<"e","n","t","e","r","t","a","i","n","m","e","n","t">>,
    <<"n","e","t","f","l","i","x">>, <<"c","i","n","e","m","a">>,
    <<"m","o","v","i","e">>, <<"s","p","o","t","i","f","y">>,
    <<"a","p","p","l","e">>,
    <<"s","u","b","s","c","r","i","p","t","i","o","n">>,
    <<"m","e","m","b","e","r","s","h","i","p">> }
HealthKeywords ==
  { <<"m","e","d","i","c","a","l">>, <<"h","e","a","l","t","h">>,
    <<"d","o","c","t","o","r">>, <<"p","h","a","r","m","a","c","y">>,
    <<"h","o","s","p","i","t","a","l">>, <<"d","e","n","t","a","l">>,
    <<"d","e","n","t","i","s","t">> }
EducationKeywords ==
  { <<"e","d","u","c","a","t","i","o","n">>, <<"s","c","h","o","o","l">>,
    <<"u","n","i","v","e","r","s","i","t","y">>,
    <<"c","o","l","l","e","g","e">>, <<"c","o","u","r","s","e">>,
    <<"t","r","a","i","n","i","n","g">> }

entertainment == <<"e","n","t","e","r","t","a","i","n","m","e","n","t">>
health == <<"h","e","a","l","t","h">>
education == <<"e","d","u","c","a","t","i","o","n">>

\* the keyword lists of categorize_transactions by the category they give
KeywordsOfFrame(category) ==
  CASE category = income -> IncomeKeywords
    [] category = groceries -> GroceriesKeywordsOfFrame
    [] category = dining -> DiningKeywordsOfFrame
    [] category = transport -> TransportKeywordsOfFrame
    [] category = shopping -> ShoppingKeywordsOfFrame
    [] category = housing -> HousingKeywordsOfFrame
    [] category = utilities -> UtilitiesKeywordsOfFrame
    [] category = entertainment -> EntertainmentKeywords
    [] category = health -> HealthKeywords
    [] category = education -> EducationKeywords

\* the chain with the income test moved to its end
CategorizeIncomeLast(description) ==
  IF AnyKeyword(description, GroceriesKeywordsOfFrame) THEN groceries
  ELSE IF AnyKeyword(description, DiningKeywordsOfFrame) THEN dining
  ELSE IF AnyKeyword(description, TransportKeywordsOfFrame) THEN transport
  ELSE IF AnyKeyword(description, ShoppingKeywordsOfFrame) THEN shopping
  ELSE IF AnyKeyword(description, HousingKeywordsOfFrame) THEN housing
  ELSE IF AnyKeyword(description, UtilitiesKeywordsOfFrame) THEN utilities
  ELSE IF AnyKeyword(description, EntertainmentKeywords) THEN entertainment
  ELSE IF AnyKeyword(description, HealthKeywords) THEN health
  ELSE IF AnyKeyword(description, EducationKeywords) THEN education
  ELSE IF AnyKeyword(description, IncomeKeywords) THEN income
  ELSE uncategorized

\* the if / elif chain of categorize_transactions; a row that matches no
\* list keeps "uncategorized"
Categorize(description) ==
  IF AnyKeyword(description, IncomeKeywords) THEN income
  ELSE IF AnyKeyword(description, GroceriesKeywordsOfFrame) THEN groceries
  ELSE IF AnyKeyword(description, DiningKeywordsOfFrame) THEN dining
  ELSE IF AnyKeyword(description, TransportKeywordsOfFrame) THEN transport
  ELSE IF AnyKeyword(description, ShoppingKeywordsOfFrame) THEN shopping
  ELSE IF AnyKeyword(description, HousingKeywordsOfFrame) THEN housing
  ELSE IF AnyKeyword(description, UtilitiesKeywordsOfFrame) THEN utilities
  ELSE IF AnyKeyword(description, EntertainmentKeywords) THEN entertainment
  ELSE IF AnyKeyword(description, HealthKeywords) THEN health
  ELSE IF AnyKeyword(description, EducationKeywords) THEN education
  ELSE uncategorized

\* a frame is its columns and its rows; a frame without a category column
\* gets one that holds "uncategorized"
categorize_transactions(transactions_df) ==
  IF transactions_df.rows = <<>> THEN transactions_df
  ELSE
    LET df ==
          IF "category" \in transactions_df.columns THEN transactions_df
          ELSE [columns |-> transactions_df.columns \cup {"category"},
                rows |-> [idx \in DOMAIN transactions_df.rows |->
                            [transactions_df.rows[idx]
                               EXCEPT !.category = uncategorized]]]
    IN [df EXCEPT !.rows =
          [idx \in DOMAIN df.rows |->
             LET row == df.rows[idx]
             IN IF row.category = uncategorized
                THEN [row EXCEPT
                        !.category = Categorize(Lower(row.description))]
                ELSE row]]

Abs(x) == IF x < 0 THEN -x ELSE x

\* the sign test turned round
TransactionTypeFlipped(amount) == IF amount > 0 THEN "expense" ELSE "income"

\* "expense" if amount < 0 else "income"
TransactionType(amount) == IF amount < 0 THEN "expense" ELSE "income"

----------------------------------------------------------------------------
(* Credential vault: utils/encryption.py *)

\* the key in FERNET_KEY when the process starts
FernetKey == "k1"

\* a text as it is, in the form of a column value: made under no key
Plaintext(data) == [fernet |-> NULL, token |-> data]

\* fernet.encrypt(data.encode()).decode(): a ciphertext is made under the
\* key of the process
encrypt(data) == [fernet |-> fernet, token |-> data]

DecryptionError == "ValueError"

\* a decrypt that hands back the text whatever key it was made under
decrypt_any(data) == data.token

\* fernet.decrypt(data.encode()).decode(); raises on a foreign key
decrypt(data) ==
  IF data.fernet = fernet THEN data.token ELSE DecryptionError

----------------------------------------------------------------------------
(* Persistent store: database/db_manager.py.  A table is the set of its    *)
(* rows; the primary key is enforced by the statements that write it.      *)

\* INSERT OR REPLACE INTO table ... with primary key column pk
InsertOrReplace(table, row, pk) ==
  {x \in table : x[pk] # row[pk]} \cup {row}

\* a save that writes the tokens as they are
save_bank_connection_plain(table, user_id, connection_id, provider, tokens, expiry) ==
  InsertOrReplace(table,
    [connection_id |-> connection_id,
     user_id       |-> user_id,
     provider      |-> provider,
     access_token  |-> Plaintext(tokens.access_token),
     refresh_token |-> Plaintext(tokens.refresh_token),
     token_expiry  |-> expiry,
     last_sync     |-> NoTime,
     created_at    |-> now],
    "connection_id")

\* save_bank_connection: the replaced row carries no last_sync and the
\* time of the statement as created_at
save_bank_connection(table, user_id, connection_id, provider, tokens, expiry) ==
  InsertOrReplace(table,
    [connection_id |-> connection_id,
     user_id       |-> user_id,
     provider      |-> provider,
     access_token  |-> encrypt(tokens.access_token),
     refresh_token |-> encrypt(tokens.refresh_token),
     token_expiry  |-> expiry,
     last_sync     |-> NoTime,
     created_at    |-> now],
    "connection_id")

\* get_bank_connection(connection_id): the row with decrypted tokens, or None
get_bank_connection(table, connection_id) ==
  LET rows == {c \in table : c.connection_id = connection_id} IN
  IF rows = {} THEN None
  ELSE LET c == CHOOSE x \in rows : TRUE IN
       IF decrypt(c.access_token) = DecryptionError
          \/ decrypt(c.refresh_token) = DecryptionError
       THEN None
       ELSE [c EXCEPT !.access_token = decrypt(c.access_token),
                      !.refresh_token = decrypt(c.refresh_token)]

\* the UPDATE that never reaches the table
update_connection_sync_time_lost(table, connection_id, sync_time) == table

\* UPDATE bank_connections SET last_sync = ? WHERE connection_id = ?
update_connection_sync_time(table, connection_id, sync_time) ==
  {IF c.connection_id = connection_id
   THEN [c EXCEPT !.last_sync = sync_time] ELSE c : c \in table}

\* save_bank_account
save_bank_account(table, account_info) ==
  InsertOrReplace(table, account_info, "account_id")

\* the sequences that list rows ORDER BY created_at DESC; rows written at
\* the same time come in either order
OrderedDesc(rows) ==
  {q \in [1..Cardinality(rows) -> rows] :
     /\ \A i, j \in DOMAIN q : q[i] = q[j] => i = j
     /\ \A i, j \in DOMAIN q : i < j => q[i].created_at >= q[j].created_at}

\* get_bank_connections(user_id): the user's connections with decrypted
\* tokens, or nothing at all when one of them cannot be decrypted
get_bank_connections(table, user_id) ==
  LET rows == {c \in table : c.user_id = user_id} IN
  IF \E c \in rows : \/ decrypt(c.access_token) = DecryptionError
                      \/ decrypt(c.refresh_token) = DecryptionError
  THEN {<<>>}
  ELSE OrderedDesc({[c EXCEPT !.access_token = decrypt(c.access_token),
                              !.refresh_token = decrypt(c.refresh_token)]
                    : c \in rows})

\* get_bank_accounts(connection_id=...)
get_bank_accounts(table, connection_id) ==
  OrderedDesc({a \in table : a.connection_id = connection_id})

\* a delete that leaves the transactions of the connection's accounts
delete_bank_connection_keep(connections, accounts, rows, connection_id) ==
  [bank_connections |-> {c \in connections : c.connection_id # connection_id},
   bank_accounts    |-> {a \in accounts : a.connection_id # connection_id},
   transactions     |-> rows]

\* delete_bank_connection: the transactions of the connection's accounts,
\* the accounts, the connection
delete_bank_connection(connections, accounts, rows, connection_id) ==
  LET ids == {a.account_id : a \in {x \in accounts :
                                      x.connection_id = connection_id}}
  IN [bank_connections |-> {c \in connections : c.connection_id # connection_id},
      bank_accounts    |-> {a \in accounts : a.connection_id # connection_id},
      transactions     |-> {x \in rows : x.account_id \notin ids}]

\* a plain INSERT that keeps the row already stored under the id
save_transaction_append(table, transaction_info, ok) ==
  IF ok THEN table \cup {transaction_info} ELSE table

\* save_transaction: ok is whether the statement ran without an exception
save_transaction(table, transaction_info, ok) ==
  IF ok THEN InsertOrReplace(table, transaction_info, "transaction_id")
  ELSE table

\* save_transactions: saves the list in order and counts the rows saved;
\* failed holds the positions whose save raised
RECURSIVE save_transactions(_, _, _, _)
save_transactions(table, transactions_list, failed, i) ==
  IF i > Len(transactions_list) THEN [table |-> table, count |-> 0]
  ELSE LET ok   == i \notin failed
           rest == save_transactions(
                     save_transaction(table, transactions_list[i], ok),
                     transactions_list, failed, i + 1)
       IN [table |-> rest.table,
           count |-> rest.count + (IF ok THEN 1 ELSE 0)]

\* INSERT OR REPLACE INTO table ... under a UNIQUE constraint on columns
ReplaceOnConflict(table, row, columns) ==
  {x \in table : \E c \in columns : x[c] # row[c]} \cup {row}

\* a plain INSERT without the constraint
save_budget_insert(table, user_id, category, amount, period) ==
  table \cup {[user_id |-> user_id, category |-> category,
                amount |-> amount, period |-> period]}

\* save_budget: the row replaces the user's budget for the category
\* (budget_id and created_at, which no query reads, are left out)
save_budget(table, user_id, category, amount, period) ==
  ReplaceOnConflict(table,
    [user_id |-> user_id, category |-> category,
     amount |-> amount, period |-> period],
    {"user_id", "category"})

\* get_budgets(user_id): the rows of the user as a dict keyed by category;
\* of several rows with one category the dict keeps one
get_budgets(table, user_id) ==
  LET rows == {x \in table : x.user_id = user_id} IN
  [category \in {x.category : x \in rows} |->
     LET x == CHOOSE y \in rows : y.category = category
     IN [amount |-> x.amount, period |-> x.period]]

\* delete_budget
delete_budget(table, user_id, category) ==
  {x \in table : ~(x.user_id = user_id /\ x.category = category)}

----------------------------------------------------------------------------
(* Provider client: bank_integration/truelayer_api.py.  What the provider  *)
(* answers is the environment's choice.                                    *)

\* get_transactions: the window goes out as dates; a non-200 status or an
\* exception comes back as an empty frame, like an empty result list
\* an answer of the transactions endpoint: the status and the result list
\* (a timeout or a network error counts as a status other than 200)
FetchFailed == [status |-> 500, results |-> <<>>]
Fetched(results) == [status |-> 200, results |-> results]

get_transactions(access_token, account_id, from_date, to_date, outcome) ==
  [request |-> [access_token |-> access_token,
                account_id   |-> account_id,
                from         |-> DateOf(from_date),
                to           |-> DateOf(to_date)],
   frame   |-> IF outcome.status = 200 THEN outcome.results ELSE <<>>]

\* what comes of a request to the token endpoint: an HTTP response, or the
\* request raises (no connection, a timeout)
RequestException == [raised |-> "RequestException"]
HttpResponse(status_code, json) == [status_code |-> status_code, json |-> json]

\* refresh_access_token: the body of a 200 response; None on every other
\* status and on an exception
refresh_access_token(answer) ==
  IF answer = RequestException THEN None
  ELSE IF answer.status_code = 200 THEN answer.json
  ELSE None

\* create_auth_url: the query of the consent URL; without a state the
\* client makes one up
create_auth_url(redirect_uri, state, uuid) ==
  [response_type |-> "code",
   redirect_uri  |-> redirect_uri,
   state         |-> IF state = NULL THEN uuid ELSE state]

----------------------------------------------------------------------------
(* Connection manager: bank_integration/auth_manager.py *)

\* datetime.now() + timedelta(seconds=expires_in) if expires_in else None
TokenExpiry(t, expires_in) == IF expires_in # 0 THEN t + expires_in ELSE NoTime

\* fetch_and_save_accounts: one row per account the provider lists, saved
\* under its account_id
fetch_and_save_accounts(table, user_id, connection_id, accounts) ==
  {x \in table : x.account_id \notin {a.account_id : a \in accounts}}
  \cup {[account_id    |-> a.account_id,
          connection_id |-> connection_id,
          user_id       |-> user_id,
          name          |-> a.display_name,
          created_at    |-> now] : a \in accounts}

\* a refresh that stores the new tokens and hands back the old connection
refresh_connection_token_stale(table, connection_id, t, response) ==
  LET connection == get_bank_connection(table, connection_id) IN
  IF connection = None \/ connection.refresh_token = NULL
  THEN [table |-> table, connection |-> None, sent |-> NULL]
  ELSE
    IF response = None \/ response.access_token = NULL
    THEN [table |-> table, connection |-> None,
          sent |-> connection.refresh_token]
    ELSE [table |-> save_bank_connection(table, connection.user_id,
                      connection_id, connection.provider,
                      [access_token  |-> response.access_token,
                       refresh_token |-> IF response.refresh_token = NULL
                                         THEN connection.refresh_token
                                         ELSE response.refresh_token],
                      TokenExpiry(t, response.expires_in)),
          connection |-> connection,
          sent |-> connection.refresh_token]

\* refresh_connection_token: the updated connection, or None when the
\* refresh failed; sent is the refresh token handed to the provider
refresh_connection_token(table, connection_id, t, response) ==
  LET connection == get_bank_connection(table, connection_id) IN
  IF connection = None \/ connection.refresh_token = NULL
  THEN [table |-> table, connection |-> None, sent |-> NULL]
  ELSE
    LET refresh_token  == connection.refresh_token
        \* refresh_access_token: None on a non-200 status or an exception
        token_response == response
    IN
    IF token_response = None \/ token_response.access_token = NULL
    THEN [table |-> table, connection |-> None, sent |-> refresh_token]
    ELSE
      LET access_token      == token_response.access_token
          new_refresh_token == IF token_response.refresh_token = NULL
                               THEN refresh_token
                               ELSE token_response.refresh_token
          expiry            == TokenExpiry(t, token_response.expires_in)
          tokens            == [access_token  |-> access_token,
                                refresh_token |-> new_refresh_token]
      IN [table      |-> save_bank_connection(table, connection.user_id,
                           connection_id, connection.provider, tokens, expiry),
          connection |-> [connection EXCEPT
                            !.access_token  = access_token,
                            !.refresh_token = new_refresh_token,
                            !.token_expiry  = expiry],
          sent       |-> refresh_token]

\* str(uuid.uuid4()): the values the generator can still produce are the
\* ones it has not produced before
UuidValues == <<"uuid-1", "uuid-2", "uuid-3", "uuid-4", "uuid-5", "uuid-6">>
Uuids == {UuidValues[i] : i \in 1..MaxUuids}
\* f"{provider.lower()}-{str(uuid.uuid4())}"
ConnectionIds == {"truelayer-1"}

----------------------------------------------------------------------------
(* Sync engine: bank_integration/transaction_manager.py *)

\* row.get("transaction_id") or str(uuid.uuid4())
TransactionId(row, uuid) ==
  IF row.transaction_id # NULL THEN row.transaction_id ELSE uuid

\* the transaction_info built from one fetched row
TransactionInfo(row, account, uuid, t) ==
  [transaction_id   |-> TransactionId(row, uuid),
   account_id       |-> account.account_id,
   user_id          |-> account.user_id,
   date             |-> IF row.timestamp # NoTime THEN row.timestamp ELSE t,
   description      |-> row.description,
   amount           |-> Abs(row.amount),
   currency         |-> row.currency,
   type             |-> TransactionType(row.amount),
   category         |-> SyncCategory(row),
   transaction_data |-> row]

\* the stored last_sync taking precedence over force_full_sync
FromDateLastSyncFirst(force_full_sync, last_sync, t) ==
  IF last_sync # NoTime THEN last_sync - Days(LookBackDays)
  ELSE IF force_full_sync THEN t - Days(FullSyncDays)
  ELSE t - Days(DefaultDays)

\* processing a fetched row raises when the row has no category and its
\* description is not a text: row.get("description", "").lower()
Raises(row) == row.category = NoText /\ row.description = NaN

\* a refresh one tick before the token's expiry
TokenExpiredEarly(token_expiry, t) ==
  token_expiry # NoTime /\ token_expiry <= t + 1

\* if token_expiry: ... if token_expiry_dt <= datetime.now()
TokenExpired(token_expiry, t) ==
  token_expiry # NoTime /\ token_expiry <= t

\* the start of the window asked of the provider
FromDate(force_full_sync, last_sync, t) ==
  IF force_full_sync THEN t - Days(FullSyncDays)
  ELSE IF last_sync # NoTime THEN last_sync - Days(LookBackDays)
  ELSE t - Days(DefaultDays)

\* the positions of a frame whose row carries no transaction id
NeedUuid(frame) == {i \in 1..Len(frame) : frame[i].transaction_id = NULL}

NoCall == [op |-> "none"]

\* the statements a call commits, in the order it commits them
Replaced(connection_id) ==
  [statement |-> "INSERT OR REPLACE INTO bank_connections",
   key |-> connection_id, last_sync |-> NoTime]
Upserted(transaction_id) ==
  [statement |-> "INSERT OR REPLACE INTO transactions",
   key |-> transaction_id, last_sync |-> NoTime]
Stamped(connection_id, sync_time) ==
  [statement |-> "UPDATE bank_connections SET last_sync",
   key |-> connection_id, last_sync |-> sync_time]

\* the commits of save_transactions, one per row whose save did not raise
RECURSIVE Upserts(_, _, _)
Upserts(transactions_list, failed, i) ==
  IF i > Len(transactions_list) THEN <<>>
  ELSE (IF i \in failed THEN <<>>
        ELSE <<Upserted(transactions_list[i].transaction_id)>>)
       \o Upserts(transactions_list, failed, i + 1)

\* the record of a sync_account_transactions call: its arguments, what it
\* asked of the provider, what the provider answered, what it committed and
\* what it returned; repeat says that the call before it was a sync of the
\* same account that fetched the same answer and saved all of it
SyncCall(account, force_full_sync) ==
  [op               |-> "sync",
   account_id       |-> account.account_id,
   connection_id    |-> account.connection_id,
   force            |-> force_full_sync,
   refresh_sent     |-> NULL,
   refresh_response |-> None,
   window           |-> None,
   request          |-> None,
   outcome          |-> None,
   failed           |-> {},
   commits          |-> <<>>,
   repeat           |-> FALSE,
   success          |-> FALSE,
   num_transactions |-> 0]

\* lines 69-150: fetch, process, save, move the watermark
FetchAndSave(account, call, table, connection, access_token, from_date, Outcomes, db_faults) ==
  \E outcome \in Outcomes :
    LET got   == get_transactions(access_token, account.account_id,
                                  from_date, now, outcome)
        frame == got.frame
        c1    == [call EXCEPT !.window  = [from |-> from_date, to |-> now],
                              !.request = got.request,
                              !.outcome = outcome,
                              !.repeat  =
                                 /\ lastCall.op = "sync"
                                 /\ lastCall.account_id = account.account_id
                                 /\ lastCall.outcome = outcome
                                 /\ lastCall.failed = {}]
    IN
    IF frame = <<>>
    THEN /\ bank_connections' =
              update_connection_sync_time(table, connection.connection_id, now)
         /\ lastCall' =
              [c1 EXCEPT !.success = TRUE,
                         !.commits = Append(@, Stamped(connection.connection_id, now))]
         /\ UNCHANGED <<now, bank_accounts, transactions, usedIds, userCategory>>
    ELSE IF \E i \in 1..Len(frame) : Raises(frame[i])
    THEN /\ bank_connections' = table
         /\ lastCall' = c1
         /\ UNCHANGED <<now, bank_accounts, transactions, usedIds, userCategory>>
    ELSE
      \E failed \in (IF db_faults THEN SUBSET (1..Len(frame)) ELSE {{}}) :
      \E uuids \in [NeedUuid(frame) -> (Uuids \ usedIds)] :
        /\ \A i, j \in NeedUuid(frame) : uuids[i] = uuids[j] => i = j
        /\ LET transactions_list ==
                 [i \in 1..Len(frame) |->
                    TransactionInfo(frame[i], account,
                      IF i \in NeedUuid(frame) THEN uuids[i] ELSE NULL, now)]
               done == save_transactions(transactions, transactions_list, failed, 1)
           IN /\ transactions' = done.table
              /\ bank_connections' =
                   update_connection_sync_time(table, connection.connection_id, now)
              /\ usedIds' = usedIds \cup {uuids[i] : i \in NeedUuid(frame)}
              /\ lastCall' =
                   [c1 EXCEPT !.failed = failed,
                              !.commits =
                                 (@ \o Upserts(transactions_list, failed, 1))
                                 \o <<Stamped(connection.connection_id, now)>>,
                              !.success = TRUE,
                              !.num_transactions = done.count]
              /\ UNCHANGED <<now, bank_accounts, userCategory>>

\* sync_account_transactions(account, force_full_sync)
SyncAccount(account, force_full_sync, Refreshes, Outcomes, db_faults) ==
  LET connection == get_bank_connection(bank_connections, account.connection_id)
      call       == SyncCall(account, force_full_sync)
  IN
  IF connection = None
  THEN /\ lastCall' = call
       /\ UNCHANGED <<now, bank_connections, bank_accounts, transactions,
                      usedIds, userCategory>>
  ELSE
    LET from_date == FromDate(force_full_sync, connection.last_sync, now)
        c0        == call
    IN
    IF TokenExpired(connection.token_expiry, now)
    THEN \E response \in Refreshes :
           LET r  == refresh_connection_token(bank_connections,
                       connection.connection_id, now, response)
               c1 == [c0 EXCEPT !.refresh_sent = r.sent,
                                !.refresh_response = response]
           IN IF r.connection = None
              THEN /\ lastCall' = c1
                   /\ UNCHANGED <<now, bank_connections, bank_accounts,
                                  transactions, usedIds, userCategory>>
              ELSE FetchAndSave(account,
                                [c1 EXCEPT !.commits =
                                   <<Replaced(connection.connection_id)>>],
                                r.table, r.connection,
                                r.connection.access_token, from_date,
                                Outcomes, db_faults)
    ELSE FetchAndSave(account, c0, bank_connections, connection,
                      connection.access_token, from_date, Outcomes, db_faults)

\* sync_account_transactions of a connection whose token is good, when the
\* process dies after it has committed the first k of its statements: the
\* upserts of save_transactions one by one, then the UPDATE of last_sync
SyncCrash(account, Outcomes) ==
  LET connection == get_bank_connection(bank_connections, account.connection_id)
  IN
  /\ connection # None
  /\ ~(connection.token_expiry # NoTime /\ connection.token_expiry <= now)
  /\ \E outcome \in Outcomes :
       LET frame == get_transactions(connection.access_token,
                      account.account_id,
                      FromDate(FALSE, connection.last_sync, now), now,
                      outcome).frame
       IN
       /\ frame # <<>>
       /\ \A i \in 1..Len(frame) : ~Raises(frame[i])
       /\ \E uuids \in [NeedUuid(frame) -> (Uuids \ usedIds)] :
          \E k \in 0..(Len(frame) + 1) :
            /\ \A i, j \in NeedUuid(frame) : uuids[i] = uuids[j] => i = j
            /\ LET transactions_list ==
                     [i \in 1..Len(frame) |->
                        TransactionInfo(frame[i], account,
                          IF i \in NeedUuid(frame) THEN uuids[i] ELSE NULL, now)]
                   upserts == IF k < Len(frame) THEN k ELSE Len(frame)
                   saved   == SubSeq(transactions_list, 1, upserts)
               IN /\ transactions' =
                       save_transactions(transactions, saved, {}, 1).table
                  /\ bank_connections' =
                       IF k > Len(frame)
                       THEN update_connection_sync_time(bank_connections,
                              connection.connection_id, now)
                       ELSE bank_connections
                  /\ usedIds' = usedIds \cup {uuids[i] : i \in NeedUuid(frame)}
                  /\ lastCall' =
                       [op            |-> "crash",
                        account_id    |-> account.account_id,
                        connection_id |-> connection.connection_id,
                        outcome       |-> outcome,
                        commits       |->
                           Upserts(saved, {}, 1)
                           \o (IF k > Len(frame)
                               THEN <<Stamped(connection.connection_id, now)>>
                               ELSE <<>>)]
  /\ UNCHANGED <<now, bank_accounts, userCategory>>

\* sync_account_transactions run by a thread: the steps between which
\* another thread can run are the reads and writes of the store and the
\* calls of the provider.  A thread keeps the call's local variables.

\* lines 30-53: read the connection, settle the window, look at the expiry
ThreadBegin(t, account, force_full_sync) ==
  /\ threads[t].pc = "idle"
  /\ LET connection == get_bank_connection(bank_connections,
                                           account.connection_id)
         call       == SyncCall(account, force_full_sync)
     IN IF connection = None
        THEN /\ lastCall' = call
             /\ UNCHANGED threads
        ELSE /\ threads' =
                  [threads EXCEPT ![t] =
                     [pc         |-> IF TokenExpired(connection.token_expiry,
                                                         now)
                                     THEN "refresh" ELSE "fetch",
                      account    |-> account,
                      call       |-> call,
                      connection |-> connection,
                      from_date  |-> FromDate(force_full_sync,
                                              connection.last_sync, now)]]
             /\ UNCHANGED lastCall
  /\ UNCHANGED <<now, bank_connections, bank_accounts, transactions, usedIds,
                 userCategory, token_endpoint>>

\* refresh_connection_token, lines 145-170: read the connection again and
\* hand its refresh token to the token endpoint, which answers
ThreadRefresh(t, response) ==
  /\ threads[t].pc = "refresh"
  /\ LET my         == threads[t]
         connection == get_bank_connection(bank_connections,
                                           my.account.connection_id)
     IN IF connection = None \/ connection.refresh_token = NULL
        THEN /\ lastCall' = my.call
             /\ threads' = [threads EXCEPT ![t] = [pc |-> "idle"]]
             /\ UNCHANGED token_endpoint
        ELSE /\ token_endpoint' = Append(token_endpoint, connection.refresh_token)
             /\ LET c1 == [my.call EXCEPT
                             !.refresh_sent = connection.refresh_token,
                             !.refresh_response = response]
                IN IF response = None \/ response.access_token = NULL
                   THEN /\ lastCall' = c1
                        /\ threads' = [threads EXCEPT ![t] = [pc |-> "idle"]]
                   ELSE /\ threads' =
                             [threads EXCEPT ![t] =
                                [my EXCEPT
                                   !.pc = "save",
                                   !.call = c1,
                                   !.connection =
                                      [connection EXCEPT
                                         !.access_token = response.access_token,
                                         !.refresh_token =
                                            IF response.refresh_token = NULL
                                            THEN connection.refresh_token
                                            ELSE response.refresh_token,
                                         !.token_expiry =
                                            TokenExpiry(now, response.expires_in)]]]
                        /\ UNCHANGED lastCall
  /\ UNCHANGED <<now, bank_connections, bank_accounts, transactions, usedIds,
                 userCategory>>

\* refresh_connection_token, lines 172-187: store the new tokens
ThreadSave(t) ==
  /\ threads[t].pc = "save"
  /\ LET my == threads[t] IN
     /\ bank_connections' =
          save_bank_connection(bank_connections, my.connection.user_id,
            my.connection.connection_id, my.connection.provider,
            [access_token  |-> my.connection.access_token,
             refresh_token |-> my.connection.refresh_token],
            my.connection.token_expiry)
     /\ threads' =
          [threads EXCEPT ![t] =
             [my EXCEPT !.pc = "fetch",
                        !.call = [my.call EXCEPT !.commits =
                                    <<Replaced(my.connection.connection_id)>>]]]
  /\ UNCHANGED <<now, bank_accounts, transactions, usedIds, userCategory,
                 lastCall, token_endpoint>>

\* lines 69-150: fetch with the thread's access token, save, stamp
ThreadFetch(t, Outcomes) ==
  /\ threads[t].pc = "fetch"
  /\ LET my == threads[t] IN
     FetchAndSave(my.account, my.call, bank_connections, my.connection,
                  my.connection.access_token, my.from_date, Outcomes, FALSE)
  /\ threads' = [threads EXCEPT ![t] = [pc |-> "idle"]]
  /\ UNCHANGED token_endpoint

\* all_accounts: the accounts of each connection, connection by connection
RECURSIVE AllAccounts(_, _)
AllAccounts(connections, i) ==
  IF i > Len(connections) THEN {<<>>}
  ELSE {x \o y : x \in get_bank_accounts(bank_accounts,
                                          connections[i].connection_id),
                  y \in AllAccounts(connections, i + 1)}

\* no sync of all accounts is running
NoBatch == [pc |-> "idle"]

\* the summary sync_all_account_transactions returns without a loop
NoSummary(message) == [success |-> FALSE, message |-> message]

\* sync_all_account_transactions, up to its loop: the connections of the
\* user, their accounts, the empty summary
StartSyncAll(user_id, force_full_sync) ==
  \E connections \in get_bank_connections(bank_connections, user_id) :
    IF connections = <<>>
    THEN batch' = [pc |-> "returned", visited |-> <<>>,
                   results |-> NoSummary("No active connections found")]
    ELSE \E all_accounts \in AllAccounts(connections, 1) :
           IF all_accounts = <<>>
           THEN batch' = [pc |-> "returned", visited |-> <<>>,
                          results |-> NoSummary("No accounts found")]
           ELSE batch' =
                  [pc      |-> "loop",
                   force   |-> force_full_sync,
                   pending |-> all_accounts,
                   visited |-> <<>>,
                   results |-> [success            |-> TRUE,
                                total_accounts     |-> Len(all_accounts),
                                successful_syncs   |-> 0,
                                failed_syncs       |-> 0,
                                total_transactions |-> 0,
                                account_results    |-> {}]]

\* one turn of the loop of sync_all_account_transactions: sync the account,
\* file its result under its name, count it; visited keeps what each
\* account's own sync returned
SyncAllNext(Refreshes, Outcomes, db_faults) ==
  /\ batch.pc = "loop"
  /\ LET account == Head(batch.pending) IN
     /\ SyncAccount(account, batch.force, Refreshes, Outcomes, db_faults)
     /\ LET success          == lastCall'.success
            num_transactions == lastCall'.num_transactions
            results          == batch.results
            rest             == Tail(batch.pending)
        IN batch' =
             [pc      |-> IF rest = <<>> THEN "returned" ELSE "loop",
              force   |-> batch.force,
              pending |-> rest,
              visited |-> Append(batch.visited,
                            [account_id       |-> account.account_id,
                             connection_id    |-> account.connection_id,
                             name             |-> account.name,
                             refresh_sent     |-> lastCall'.refresh_sent,
                             refresh_response |-> lastCall'.refresh_response,
                             success          |-> success,
                             num_transactions |-> num_transactions]),
              results |->
                [results EXCEPT
                   !.account_results =
                      InsertOrReplace(@, [name         |-> account.name,
                                          success      |-> success,
                                          transactions |-> num_transactions],
                                      "name"),
                   !.successful_syncs = IF success THEN @ + 1 ELSE @,
                   !.total_transactions =
                      IF success THEN @ + num_transactions ELSE @,
                   !.failed_syncs = IF success THEN @ ELSE @ + 1]]

\* disconnect_bank(connection_id); removed is the number of transactions
\* the call deleted
DisconnectBank(connection_id) ==
  LET left == delete_bank_connection(bank_connections, bank_accounts,
                                     transactions, connection_id)
  IN /\ bank_connections' = left.bank_connections
     /\ bank_accounts' = left.bank_accounts
     /\ transactions' = left.transactions
     /\ lastCall' = [op |-> "disconnect", connection_id |-> connection_id,
                     removed |-> Cardinality(transactions \ left.transactions),
                     success |-> TRUE]
     /\ UNCHANGED <<now, usedIds, userCategory>>

----------------------------------------------------------------------------
(* Connecting a bank, the user's category edit, the clock *)

\* handle_auth_code: exchange the code, store the connection and its
\* accounts, stamp the connection's sync time; fresh holds the connection
\* ids uuid4 can still produce
HandleAuthCode(user_id, token_response, accounts, fresh) ==
  IF \/ token_response = None
     \/ token_response.access_token = NULL
     \/ token_response.refresh_token = NULL
  THEN /\ lastCall' = [op |-> "connect", success |-> FALSE]
       /\ UNCHANGED <<now, bank_connections, bank_accounts, transactions,
                      usedIds, userCategory>>
  ELSE
    \E connection_id \in fresh \ usedIds :
      LET expiry == TokenExpiry(now, token_response.expires_in)
          tokens == [access_token  |-> token_response.access_token,
                     refresh_token |-> token_response.refresh_token]
          saved  == save_bank_connection(bank_connections, user_id,
                      connection_id, "TrueLayer", tokens, expiry)
      IN /\ bank_connections' =
              update_connection_sync_time(saved, connection_id, now)
         /\ bank_accounts' = fetch_and_save_accounts(bank_accounts, user_id,
                               connection_id, accounts)
         /\ usedIds' = usedIds \cup {connection_id}
         /\ lastCall' = [op |-> "connect", success |-> TRUE]
         /\ UNCHANGED <<now, transactions, userCategory>>

\* the user sets the category of a stored transaction: the row is saved
\* again with the new category
SetCategory(row, category) ==
  /\ row \in transactions
  /\ row.category # category
  /\ transactions' =
       save_transaction(transactions, [row EXCEPT !.category = category], TRUE)
  /\ userCategory' =
       {e \in userCategory : e.account_id # row.account_id
                             \/ e.transaction_id # row.transaction_id}
       \cup {[account_id |-> row.account_id,
              transaction_id |-> row.transaction_id,
              category |-> category]}
  /\ lastCall' = [op |-> "edit"]
  /\ UNCHANGED <<now, bank_connections, bank_accounts, usedIds>>

\* what the sync of one account does not touch: the process key, the
\* budgets, a running sync of all accounts, the other threads, the
\* token endpoint's record of refreshes, the browser session and the
\* record of how each account's syncs have gone
others == <<fernet, budgets, batch, threads, token_endpoint, session, history>>

\* time passes
Tick ==
  /\ now < Epoch + MaxTicks
  /\ now' = now + 1
  /\ UNCHANGED <<bank_connections, bank_accounts, transactions, usedIds,
                 userCategory, lastCall>>
  /\ UNCHANGED others

----------------------------------------------------------------------------
(* What the environment can supply *)

Users == {"u1"}
UserCategories == {<<"f","u","n">>}

\* a transaction the provider reports under its own id
Utility ==
  [transaction_id |-> "t1", timestamp |-> Epoch - 3,
   description |-> <<"G","A","S">>, amount |-> -5, currency |-> "GBP",
   category |-> NoText]
\* the same id again, reported with other contents and a provider category
Wage ==
  [transaction_id |-> "t1", timestamp |-> NoTime,
   description |-> <<"w","a","g","e">>, amount |-> 7, currency |-> "GBP",
   category |-> <<"B","i","l","l">>]
\* a transaction the provider reports without an id
Anonymous ==
  [transaction_id |-> NULL, timestamp |-> Epoch - 3,
   description |-> <<"x">>, amount |-> -2, currency |-> "GBP",
   category |-> NoText]

\* a transaction the provider reports without a description
Blank ==
  [transaction_id |-> "t3", timestamp |-> Epoch - 3,
   description |-> NaN, amount |-> -2, currency |-> "GBP",
   category |-> NoText]

\* a second transaction with an id of its own
Rent ==
  [transaction_id |-> "t2", timestamp |-> Epoch - 1,
   description |-> <<"R","e","n","t">>, amount |-> -9, currency |-> "GBP",
   category |-> NoText]

RECURSIVE SeqsUpTo(_, _)
SeqsUpTo(S, n) ==
  IF n = 0 THEN {<<>>}
  ELSE LET shorter == SeqsUpTo(S, n - 1)
       IN shorter \cup {Append(q, x) : q \in shorter, x \in S}

FetchOutcomes(Raw) ==
  {Fetched(results) : results \in SeqsUpTo(Raw, MaxBatch)} \cup {FetchFailed}

TokenResponses(Access, Refresh, Expires) ==
  [access_token : Access, refresh_token : Refresh, expires_in : Expires]
  \cup {None}

\* the threads that can run a sync, and a thread that runs none
Threads == {"T1", "T2"}
Idle == [pc |-> "idle"]
\* a browser session that has not been sent to the provider
NoSession == [state |-> NULL, callback |-> None]

Init ==
  /\ now = Epoch
  /\ bank_connections = {}
  /\ bank_accounts = {}
  /\ transactions = {}
  /\ usedIds = {}
  /\ userCategory = {}
  /\ lastCall = NoCall
  /\ fernet = FernetKey
  /\ budgets = {}
  /\ batch = NoBatch
  /\ threads = [t \in Threads |-> Idle]
  /\ token_endpoint = <<>>
  /\ session = NoSession
  /\ history = {}

----------------------------------------------------------------------------
(* Spec: the token lifecycle and the watermark.  Tokens expire and are     *)
(* refreshed as time passes; the provider answers with nothing, with one   *)
(* or two transactions, with a row that cannot be processed, or fails.     *)

AccountIds == {"a1"}
\* the accounts the provider lists for a connection
ProviderAccounts(ids, names) == [account_id : ids, display_name : names]
CurrentAccount == "Current Account"
\* the answers of the token endpoint to a code exchange and to a refresh:
\* a refresh answer may come without a refresh token or an access token
Exchanges ==
  TokenResponses({"at1"}, {"rt1"}, {0, 1})
  \cup {[access_token |-> "at1", refresh_token |-> NULL, expires_in |-> 1]}
Refreshes ==
  TokenResponses({"at2"}, {"rt2", NULL}, {0, 1})
  \cup {[access_token |-> NULL, refresh_token |-> "rt2", expires_in |-> 1]}
Outcomes ==
  {FetchFailed, Fetched(<<>>), Fetched(<<Utility>>), Fetched(<<Utility, Rent>>),
   Fetched(<<Blank>>)}

Connect ==
  /\ \E user_id \in Users, token_response \in Exchanges,
        accounts \in SUBSET ProviderAccounts(AccountIds, {CurrentAccount}) \ {{}} :
       HandleAuthCode(user_id, token_response, accounts, ConnectionIds)
  /\ UNCHANGED others

Sync ==
  /\ \E account \in bank_accounts, force_full_sync \in BOOLEAN :
       SyncAccount(account, force_full_sync, Refreshes, Outcomes, TRUE)
  /\ UNCHANGED others

\* a sync during which the process dies
Crash ==
  /\ \E account \in bank_accounts : SyncCrash(account, Outcomes)
  /\ UNCHANGED others

Next == Tick \/ Connect \/ Sync \/ Crash

Spec == Init /\ [][Next]_vars

----------------------------------------------------------------------------
(* SpecUpsert: the transactions table at one instant.  The token never     *)
(* expires; the provider reports every sequence of up to MaxBatch rows     *)
(* with and without ids, and the user edits categories.                    *)

UpsertTokens == TokenResponses({"at1"}, {"rt1"}, {0})
UpsertOutcomes == FetchOutcomes({Utility, Wage, Anonymous})

ConnectUpsert ==
  /\ \E user_id \in Users, token_response \in UpsertTokens :
       HandleAuthCode(user_id, token_response,
                      ProviderAccounts(AccountIds, {CurrentAccount}),
                      ConnectionIds)
  /\ UNCHANGED others

SyncUpsert ==
  /\ \E account \in bank_accounts :
       SyncAccount(account, FALSE, UpsertTokens, UpsertOutcomes, FALSE)
  /\ UNCHANGED others

Edit ==
  /\ \E row \in transactions, category \in UserCategories :
       SetCategory(row, category)
  /\ UNCHANGED others

NextUpsert == ConnectUpsert \/ SyncUpsert \/ Edit

SpecUpsert == Init /\ [][NextUpsert]_vars

----------------------------------------------------------------------------
(* SpecBank: one user with up to two connections, each with one account    *)
(* that the provider lists under either id and either name.  Tokens        *)
(* expire and a refresh can fail.  The user syncs all accounts; a sync of  *)
(* all accounts runs to its end and hands over its summary before          *)
(* anything else happens.                                                  *)

BankConnectionIds == {"truelayer-1", "truelayer-2"}
BankAccountIds == {"a1", "a2"}
SavingsAccount == "Savings"
BankExchanges == [access_token : {"at1"}, refresh_token : {"rt1"}, expires_in : {0, 1}]
BankRefreshes == {None, [access_token |-> "at2", refresh_token |-> "rt2", expires_in |-> 0]}
BankOutcomes == {Fetched(<<>>), Fetched(<<Utility>>)}

ConnectBank ==
  /\ batch.pc = "idle"
  /\ \E user_id \in Users, token_response \in BankExchanges,
        account \in ProviderAccounts(BankAccountIds,
                                     {CurrentAccount, SavingsAccount}) :
       HandleAuthCode(user_id, token_response, {account}, BankConnectionIds)
  /\ UNCHANGED others

SyncAll ==
  /\ batch.pc = "idle"
  /\ \E user_id \in Users : StartSyncAll(user_id, FALSE)
  /\ UNCHANGED <<now, bank_connections, bank_accounts, transactions, usedIds,
                 userCategory, lastCall>>
  /\ UNCHANGED <<fernet, budgets, threads, token_endpoint, session, history>>

SyncAllLoop ==
  /\ SyncAllNext(BankRefreshes, BankOutcomes, FALSE)
  /\ UNCHANGED <<fernet, budgets, threads, token_endpoint, session, history>>

\* the caller has shown the summary
SyncAllReturn ==
  /\ batch.pc = "returned"
  /\ batch' = NoBatch
  /\ UNCHANGED <<now, bank_connections, bank_accounts, transactions, usedIds,
                 userCategory, lastCall>>
  /\ UNCHANGED <<fernet, budgets, threads, token_endpoint, session, history>>

TickBank == batch.pc = "idle" /\ Tick

NextBank ==
  TickBank \/ ConnectBank \/ SyncAll \/ SyncAllLoop \/ SyncAllReturn

SpecBank == Init /\ [][NextBank]_vars

----------------------------------------------------------------------------
(* SpecCascade: one user with up to two connections at one instant, each   *)
(* with one account that the provider lists under either id.  The tokens   *)
(* do not expire; the provider reports one of two transactions for         *)
(* whichever account is synced; the user disconnects.                      *)

CascadeExchanges == [access_token : {"at1"}, refresh_token : {"rt1"}, expires_in : {0}]
CascadeOutcomes == {Fetched(<<Utility>>), Fetched(<<Rent>>)}

ConnectCascade ==
  /\ \E user_id \in Users, token_response \in CascadeExchanges,
        account \in ProviderAccounts(BankAccountIds, {CurrentAccount}) :
       HandleAuthCode(user_id, token_response, {account}, BankConnectionIds)
  /\ UNCHANGED others

SyncCascade ==
  /\ \E account \in bank_accounts :
       SyncAccount(account, FALSE, CascadeExchanges, CascadeOutcomes, FALSE)
  /\ UNCHANGED others

Disconnect ==
  /\ \E connection_id \in BankConnectionIds : DisconnectBank(connection_id)
  /\ UNCHANGED others

NextCascade == ConnectCascade \/ SyncCascade \/ Disconnect

SpecCascade == Init /\ [][NextCascade]_vars

----------------------------------------------------------------------------
(* SpecVault: the process is started again, with the key it had or with    *)
(* another key in FERNET_KEY; connections are stored under the key of the  *)
(* process that stored them and read back by the process that runs now.    *)

FernetKeys == {FernetKey, "k2"}

\* get_fernet_key at the start of a process
Restart ==
  /\ \E key \in FernetKeys : fernet' = key
  /\ lastCall' = [op |-> "start"]
  /\ UNCHANGED <<now, bank_connections, bank_accounts, transactions, usedIds,
                 userCategory>>
  /\ UNCHANGED <<budgets, batch, threads, token_endpoint, session, history>>

ConnectVault ==
  /\ \E user_id \in Users, token_response \in Exchanges :
       HandleAuthCode(user_id, token_response,
                      ProviderAccounts(AccountIds, {CurrentAccount}),
                      BankConnectionIds)
  /\ UNCHANGED others

\* get_bank_connection(connection_id) for one of the stored connections
ReadConnection ==
  /\ \E c \in bank_connections :
       lastCall' = [op            |-> "get_bank_connection",
                    connection_id |-> c.connection_id,
                    stored        |-> c,
                    connection    |-> get_bank_connection(bank_connections,
                                                          c.connection_id)]
  /\ UNCHANGED <<now, bank_connections, bank_accounts, transactions, usedIds,
                 userCategory>>
  /\ UNCHANGED others

NextVault == Restart \/ ConnectVault \/ ReadConnection

SpecVault == Init /\ [][NextVault]_vars

----------------------------------------------------------------------------
(* SpecCallback: the connect page.  The page sends the user to the consent *)
(* URL with the user id as state; a request arrives at the page with a     *)
(* code and with the state that was sent, another state or none, and the   *)
(* token endpoint answers the exchange of the code.                        *)

DEFAULT_REDIRECT_URI == "https://console.truelayer.com/redirect-page"
AuthCodes == {"code-1", "code-2"}
ForeignState == "state-of-another-session"

\* bank_connection_component, lines 108-113: the consent URL
ShowAuthUrl ==
  /\ \E user_id \in Users :
       session' = [session EXCEPT
                     !.state = create_auth_url(DEFAULT_REDIRECT_URI, user_id,
                                               NULL).state]
  /\ UNCHANGED <<now, bank_connections, bank_accounts, transactions, usedIds,
                 userCategory, lastCall>>
  /\ UNCHANGED <<fernet, budgets, batch, threads, token_endpoint, history>>

\* bank_connection_component, lines 31-54: a request with a code in its
\* query is handed to handle_auth_code
Callback ==
  /\ \E query \in [code : AuthCodes, state : {session.state, ForeignState, NULL}],
        user_id \in Users, token_response \in Exchanges :
       /\ session' = [session EXCEPT !.callback = query]
       /\ HandleAuthCode(user_id, token_response,
                         ProviderAccounts(AccountIds, {CurrentAccount}),
                         BankConnectionIds)
  /\ UNCHANGED <<fernet, budgets, batch, threads, token_endpoint, history>>

NextCallback == ShowAuthUrl \/ Callback

SpecCallback == Init /\ [][NextCallback]_vars

----------------------------------------------------------------------------
(* SpecBudget: two users set and delete budgets for two categories.        *)

BudgetUsers == {"u1", "u2"}
BudgetCategories == {groceries, dining}
BudgetAmounts == {100, 250}
BudgetPeriods == {"monthly", "weekly"}

SetBudget ==
  /\ \E user_id \in BudgetUsers, category \in BudgetCategories,
        amount \in BudgetAmounts, period \in BudgetPeriods :
       /\ budgets' = save_budget(budgets, user_id, category, amount, period)
       /\ lastCall' = [op |-> "save_budget", user_id |-> user_id,
                       category |-> category, amount |-> amount,
                       period |-> period,
                       existed |-> category \in DOMAIN get_budgets(budgets, user_id)]
  /\ UNCHANGED <<now, bank_connections, bank_accounts, transactions, usedIds,
                 userCategory>>
  /\ UNCHANGED <<fernet, batch, threads, token_endpoint, session, history>>

DeleteBudget ==
  /\ \E user_id \in BudgetUsers, category \in BudgetCategories :
       /\ budgets' = delete_budget(budgets, user_id, category)
       /\ lastCall' = [op |-> "delete_budget", user_id |-> user_id,
                       category |-> category,
                       existed |-> category \in DOMAIN get_budgets(budgets, user_id)]
  /\ UNCHANGED <<now, bank_connections, bank_accounts, transactions, usedIds,
                 userCategory>>
  /\ UNCHANGED <<fernet, batch, threads, token_endpoint, session, history>>

NextBudget == SetBudget \/ DeleteBudget

SpecBudget == Init /\ [][NextBudget]_vars

----------------------------------------------------------------------------
(* SpecRace: two threads sync the account of one connection whose token    *)
(* expires.  The token endpoint accepts every refresh token it is handed   *)
(* and answers with tokens it has not issued before, which do not expire.  *)

\* the tokens the token endpoint issues, in the order it issues them
IssuedTokens == <<"rt2", "rt3">>
RaceExchanges == {[access_token |-> "at1", refresh_token |-> "rt1", expires_in |-> 1]}
RaceOutcomes == {Fetched(<<>>), Fetched(<<Utility>>)}

\* the answer of the token endpoint to the refresh it receives next
Rotation ==
  [access_token  |-> "at2",
   refresh_token |-> IssuedTokens[Len(token_endpoint) + 1],
   expires_in    |-> 0]

ConnectRace ==
  /\ \E user_id \in Users, token_response \in RaceExchanges :
       HandleAuthCode(user_id, token_response,
                      ProviderAccounts(AccountIds, {CurrentAccount}),
                      ConnectionIds)
  /\ UNCHANGED others

Begin ==
  /\ \E t \in Threads, account \in bank_accounts :
       ThreadBegin(t, account, FALSE)
  /\ UNCHANGED <<fernet, budgets, batch, session, history>>

Refresh ==
  /\ \E t \in Threads : ThreadRefresh(t, Rotation)
  /\ UNCHANGED <<fernet, budgets, batch, session, history>>

Save ==
  /\ \E t \in Threads : ThreadSave(t)
  /\ UNCHANGED <<fernet, budgets, batch, session, history>>

Fetch ==
  /\ \E t \in Threads : ThreadFetch(t, RaceOutcomes)
  /\ UNCHANGED <<fernet, budgets, batch, session, history>>

NextRace == Tick \/ ConnectRace \/ Begin \/ Refresh \/ Save \/ Fetch

SpecRace == Init /\ [][NextRace]_vars

----------------------------------------------------------------------------
(* SpecCategorize: frames of one row whose description is up to MaxWords   *)
(* words, with and without a category column, are categorised.             *)

Words ==
  { <<"W","a","g","e">>,
    <<"f","o","o","d">>,
    <<"c","a","f","e">>,
    <<"t","r","a","i","n","i","n","g">>,
    <<"s","h","o","p">>,
    <<"r","e","n","t">>,
    <<"G","A","S">>,
    <<"n","e","t","f","l","i","x">>,
    <<"h","e","a","l","t","h">>,
    <<"s","c","h","o","o","l">>,
    <<"m","i","s","c">> }
Space == <<" ">>
RECURSIVE Descriptions(_)
Descriptions(n) ==
  IF n = 1 THEN Words
  ELSE LET shorter == Descriptions(n - 1)
       IN shorter \cup {d \o Space \o w : d \in shorter, w \in Words}
Bills == <<"b","i","l","l","s">>
\* a row of a frame that has no category column reads as NoText
Frames ==
  {[columns |-> {"description", "category"}, rows |-> <<>>]}
  \cup {[columns |-> {"description", "category"},
         rows |-> <<[description |-> d, category |-> c]>>] :
          d \in Descriptions(MaxWords), c \in {uncategorized, Bills}}
  \cup {[columns |-> {"description"},
         rows |-> <<[description |-> d, category |-> NoText]>>] :
          d \in Descriptions(MaxWords)}

\* one call; a call depends on nothing an earlier call has left
CategorizeFrame ==
  /\ lastCall = NoCall
  /\ \E transactions_df \in Frames :
       lastCall' = [op |-> "categorize_transactions", df |-> transactions_df,
                    result |-> categorize_transactions(transactions_df)]
  /\ UNCHANGED <<now, bank_connections, bank_accounts, transactions, usedIds,
                 userCategory>>
  /\ UNCHANGED others

NextCategorize == CategorizeFrame

SpecCategorize == Init /\ [][NextCategorize]_vars

----------------------------------------------------------------------------
(* SpecRefresh: the token of one connection expires; the token endpoint    *)
(* answers a refresh with new tokens, turns the refresh token down, or     *)
(* cannot be reached.  token_endpoint holds what came of the refresh       *)
(* request of the last sync, if it made one.                               *)

RefreshExchanges == TokenResponses({"at1"}, {"rt1"}, {1})
InvalidGrant == [error |-> "invalid_grant"]
RefreshAnswers ==
  {HttpResponse(200, [access_token |-> "at2", refresh_token |-> "rt2",
                      expires_in |-> e]) : e \in {0, 1}}
  \cup {HttpResponse(401, InvalidGrant), RequestException}
RefreshOutcomes == {Fetched(<<>>), Fetched(<<Utility>>), FetchFailed}

ConnectRefresh ==
  /\ \E user_id \in Users, token_response \in RefreshExchanges :
       HandleAuthCode(user_id, token_response,
                      ProviderAccounts(AccountIds, {CurrentAccount}),
                      ConnectionIds)
  /\ UNCHANGED others

SyncRefresh ==
  /\ \E account \in bank_accounts, answer \in RefreshAnswers :
       /\ SyncAccount(account, FALSE, {refresh_access_token(answer)},
                      RefreshOutcomes, FALSE)
       /\ token_endpoint' =
            IF lastCall'.refresh_sent # NULL THEN <<answer>> ELSE <<>>
  /\ UNCHANGED <<fernet, budgets, batch, threads, session, history>>

NextRefresh == Tick \/ ConnectRefresh \/ SyncRefresh

SpecRefresh == Init /\ [][NextRefresh]_vars

----------------------------------------------------------------------------
(* SpecReconnect: the process is started again with the key it had or with *)
(* another one; the user lists the connections and syncs an account.       *)

\* get_active_connections() for the user of the session
ListConnections ==
  /\ \E user_id \in Users :
       \E connections \in get_bank_connections(bank_connections, user_id) :
         lastCall' = [op          |-> "get_active_connections",
                      user_id     |-> user_id,
                      connections |-> connections]
  /\ UNCHANGED <<now, bank_connections, bank_accounts, transactions, usedIds,
                 userCategory>>
  /\ UNCHANGED others

SyncVault ==
  /\ \E account \in bank_accounts :
       SyncAccount(account, FALSE, {None}, BankOutcomes, FALSE)
  /\ UNCHANGED others

NextReconnect == Restart \/ ConnectVault \/ ListConnections \/ SyncVault

SpecReconnect == Init /\ [][NextReconnect]_vars

----------------------------------------------------------------------------
(* SpecSibling: one connection with two accounts, whose token does not     *)
(* expire; time passes, and the accounts are synced one at a time with an  *)
(* answer that is saved or with one that cannot be processed.  history     *)
(* holds, per account, the time of its last successful sync (NoTime if it  *)
(* has had none), whether its last sync failed, and whether a sync of      *)
(* another account of the connection has succeeded since that failure.     *)

SiblingAccountIds == {"a1", "a2"}
SiblingExchanges == TokenResponses({"at1"}, {"rt1"}, {0}) \ {None}
SiblingOutcomes == {Fetched(<<Utility>>), Fetched(<<Blank>>)}

NeverSynced(account) ==
  [account_id |-> account.account_id, connection_id |-> account.connection_id,
   at |-> NoTime, failed |-> FALSE, sibling |-> FALSE]

HistoryOf(account) ==
  IF \E e \in history : e.account_id = account.account_id
  THEN CHOOSE e \in history : e.account_id = account.account_id
  ELSE NeverSynced(account)

\* the history after a sync of account has returned success
Recorded(account, success) ==
  {IF e.account_id = account.account_id
   THEN [e EXCEPT !.at = IF success THEN now ELSE @,
                  !.failed = ~success,
                  !.sibling = FALSE]
   ELSE [e EXCEPT !.sibling = @ \/ (success /\ e.failed)]
   : e \in {HistoryOf(a) : a \in {x \in bank_accounts :
                                    x.connection_id = account.connection_id}}}

ConnectSibling ==
  /\ \E user_id \in Users, token_response \in SiblingExchanges :
       HandleAuthCode(user_id, token_response,
                      ProviderAccounts(SiblingAccountIds, {CurrentAccount}),
                      ConnectionIds)
  /\ UNCHANGED others

SyncSibling ==
  /\ \E account \in bank_accounts :
       /\ SyncAccount(account, FALSE, {None}, SiblingOutcomes, FALSE)
       /\ history' = Recorded(account, lastCall'.success)
  /\ UNCHANGED <<fernet, budgets, batch, threads, token_endpoint, session>>

NextSibling == Tick \/ ConnectSibling \/ SyncSibling

SpecSibling == Init /\ [][NextSibling]_vars

----------------------------------------------------------------------------
(* SpecOrphan: threads sync the accounts of up to two connections, whose   *)
(* tokens do not expire, while the user disconnects connections.           *)

ConnectOrphan ==
  /\ \E user_id \in Users, token_response \in SiblingExchanges,
        account \in ProviderAccounts(BankAccountIds, {CurrentAccount}) :
       HandleAuthCode(user_id, token_response, {account}, BankConnectionIds)
  /\ UNCHANGED others

BeginOrphan ==
  /\ \E t \in Threads, account \in bank_accounts :
       ThreadBegin(t, account, FALSE)
  /\ UNCHANGED <<fernet, budgets, batch, session, history>>

FetchOrphan ==
  /\ \E t \in Threads : ThreadFetch(t, CascadeOutcomes)
  /\ UNCHANGED <<fernet, budgets, batch, session, history>>

\* disconnect_bank run by the user's session while syncs are under way
DisconnectOrphan ==
  /\ \E c \in bank_connections : DisconnectBank(c.connection_id)
  /\ UNCHANGED others

NextOrphan == ConnectOrphan \/ BeginOrphan \/ FetchOrphan \/ DisconnectOrphan

SpecOrphan == Init /\ [][NextOrphan]_vars

----------------------------------------------------------------------------
(* Properties *)

\* the stored row of a connection
Stored(table, connection_id) ==
  CHOOSE c \in table : c.connection_id = connection_id

\* a step that is a call of sync_account_transactions (only Tick moves the
\* clock, and every other call leaves its own record)
SyncStep == now' = now /\ lastCall'.op = "sync"

\* the stored rows of one (account_id, transaction_id)
RowsOf(table, account_id, transaction_id) ==
  {x \in table : x.account_id = account_id
                 /\ x.transaction_id = transaction_id}

HasIds(results) == \A i \in 1..Len(results) : results[i].transaction_id # NULL

\* C1: when sync_account runs twice for an account and the provider returns
\* the same rows, all with ids, both times and every save succeeds, each
\* (account_id, transaction_id) of the answer has exactly one stored row and
\* the second sync leaves the number of stored rows and their keys as they
\* were.
IdempotentUpsert ==
  [][(/\ SyncStep
      /\ lastCall'.repeat
      /\ lastCall'.failed = {}
      /\ HasIds(lastCall'.outcome.results))
     => LET results == lastCall'.outcome.results
            Keys(table) == {<<x.account_id, x.transaction_id>> : x \in table}
        IN /\ \A i \in 1..Len(results) :
                Cardinality(RowsOf(transactions', lastCall'.account_id,
                                   results[i].transaction_id)) = 1
           /\ Cardinality(transactions') = Cardinality(transactions)
           /\ Keys(transactions') = Keys(transactions)]_vars

IdempotentUpsertWitness ==
  /\ lastCall.op = "sync"
  /\ lastCall.repeat
  /\ lastCall.failed = {}
  /\ lastCall.outcome.results = <<Wage, Utility>>
  /\ lastCall.num_transactions = 2
  /\ Cardinality(transactions) = 1

\* C2: when the save of one of the fetched transactions fails during
\* sync_account, the call leaves the connection's last_sync as it was, so
\* the next non-forced sync starts its window where it would have before.
WatermarkAtomicity ==
  [][(SyncStep /\ lastCall'.failed # {})
     => LET before == Stored(bank_connections, lastCall'.connection_id)
            after  == Stored(bank_connections', lastCall'.connection_id)
        IN /\ after.last_sync = before.last_sync
           /\ FromDate(FALSE, after.last_sync, now)
                = FromDate(FALSE, before.last_sync, now)]_vars

\* C3: once the user has set the category of a stored transaction, the
\* stored category of that (account_id, transaction_id) stays the user's
\* value through every later sync.
CategoryOverridePersists ==
  \A e \in userCategory :
    \A x \in RowsOf(transactions, e.account_id, e.transaction_id) :
      x.category = e.category

\* C4: a fetched row without a provider id gets a transaction id that is
\* determined by its date, description, amount and account, so that a sync
\* that fetches the same answer again leaves exactly one stored row for it.
DeterministicIdDerivation ==
  (lastCall.op = "sync" /\ lastCall.repeat)
  => \A i \in NeedUuid(lastCall.outcome.results) :
       LET row == lastCall.outcome.results[i] IN
       Cardinality({x \in transactions :
                      /\ x.account_id = lastCall.account_id
                      /\ x.date = row.timestamp
                      /\ x.description = row.description
                      /\ x.transaction_data.amount = row.amount
                      /\ x.transaction_data.transaction_id = NULL}) = 1

\* C5: the window sync_account asks of the provider is [now - 365d, now]
\* under force_full, else [last_sync - 7d, now] when the connection has a
\* last_sync, else [now - 90d, now]; it goes out as the dates of its ends.
WindowPolicy ==
  [][(SyncStep /\ lastCall'.request # None)
     => LET before == Stored(bank_connections, lastCall'.connection_id)
            start  == IF lastCall'.force THEN now - 365 * TicksPerDay
                      ELSE IF before.last_sync # NoTime
                           THEN before.last_sync - 7 * TicksPerDay
                           ELSE now - 90 * TicksPerDay
        IN /\ lastCall'.window = [from |-> start, to |-> now]
           /\ lastCall'.request.from = start \div TicksPerDay
           /\ lastCall'.request.to = now \div TicksPerDay
           /\ lastCall'.request.account_id = lastCall'.account_id]_vars

\* a non-forced sync of a connection without a last_sync has asked for the
\* 90 days before now
WindowPolicyWitness ==
  /\ lastCall.op = "sync"
  /\ ~lastCall.force
  /\ lastCall.request # None
  /\ lastCall.window.to > Epoch
  /\ lastCall.window.from = lastCall.window.to - 90 * TicksPerDay

\* C6: when the provider answers with an empty list, sync_account returns
\* success with 0 transactions, stores nothing and sets last_sync to now.
EmptyResponseSync ==
  [][(SyncStep /\ lastCall'.outcome = Fetched(<<>>))
     => /\ lastCall'.success
        /\ lastCall'.num_transactions = 0
        /\ transactions' = transactions
        /\ Stored(bank_connections', lastCall'.connection_id).last_sync = now]_vars

EmptyResponseSyncWitness ==
  /\ lastCall.op = "sync"
  /\ lastCall.outcome = Fetched(<<>>)
  /\ lastCall.success
  /\ now > Epoch
  /\ Stored(bank_connections, lastCall.connection_id).last_sync = now

\* C7: when the fetch of the transactions fails, sync_account reports
\* failure and leaves last_sync as it was.
FailedFetchIsFailedSync ==
  [][(SyncStep /\ lastCall'.outcome = FetchFailed)
     => /\ ~lastCall'.success
        /\ Stored(bank_connections', lastCall'.connection_id).last_sync
             = Stored(bank_connections, lastCall'.connection_id).last_sync]_vars

\* C8: every stored transaction holds the magnitude of the fetched amount,
\* never a negative one, with type expense for a negative fetched amount
\* and income for a positive one.
SignNormalization ==
  \A x \in transactions :
    LET raw == x.transaction_data.amount IN
    /\ x.amount >= 0
    /\ x.amount \in {raw, 0 - raw}
    /\ raw < 0 => x.type = "expense"
    /\ raw > 0 => x.type = "income"

SignNormalizationWitness ==
  /\ \E x \in transactions : x.transaction_data.amount < 0 /\ x.amount > 0
  /\ \E x \in transactions : x.transaction_data.amount > 0

\* the token_expiry of a stored connection is set and not after t
Expired(table, connection_id, t) ==
  /\ \E c \in table : c.connection_id = connection_id
  /\ Stored(table, connection_id).token_expiry # NoTime
  /\ Stored(table, connection_id).token_expiry <= t

\* a token response that refresh_connection_token accepts
Accepted(response) == response # None /\ response.access_token # NULL

\* C9: a sync of a connection whose token_expiry is set and not after now
\* calls the provider refresh with the stored refresh token; when the
\* refresh succeeds, the connection's row holds the new access token and the
\* new refresh token (the old one if the answer carries none), encrypted,
\* and the new expiry, and the fetch uses the new access token.
RefreshBeforeUse ==
  [][(SyncStep /\ Expired(bank_connections, lastCall'.connection_id, now))
     => LET before   == Stored(bank_connections, lastCall'.connection_id)
            after    == Stored(bank_connections', lastCall'.connection_id)
            response == lastCall'.refresh_response
        IN /\ lastCall'.refresh_sent = before.refresh_token.token
           /\ Accepted(response) =>
                /\ after.access_token.token = response.access_token
                /\ after.refresh_token.token =
                     (IF response.refresh_token # NULL
                      THEN response.refresh_token
                      ELSE before.refresh_token.token)
                /\ after.access_token.fernet = FernetKey
                /\ after.refresh_token.fernet = FernetKey
                /\ after.token_expiry =
                     (IF response.expires_in # 0
                      THEN now + response.expires_in ELSE NoTime)
                /\ lastCall'.request # None
                /\ lastCall'.request.access_token = response.access_token]_vars

RefreshBeforeUseWitness ==
  /\ lastCall.op = "sync"
  /\ lastCall.refresh_sent = "rt1"
  /\ Accepted(lastCall.refresh_response)
  /\ lastCall.refresh_response.refresh_token = "rt2"
  /\ lastCall.request # None
  /\ lastCall.request.access_token = "at2"
  /\ Stored(bank_connections, lastCall.connection_id).token_expiry > now

\* C10: when the provider refresh fails for an expired connection, the sync
\* fails without a fetch and without moving last_sync, and the connection
\* is marked as revoked: its stored row is no longer the row it was.
RefreshFailureRevokes ==
  [][(/\ SyncStep
      /\ Expired(bank_connections, lastCall'.connection_id, now)
      /\ ~Accepted(lastCall'.refresh_response))
     => /\ ~lastCall'.success
        /\ lastCall'.request = None
        /\ Stored(bank_connections', lastCall'.connection_id).last_sync
             = Stored(bank_connections, lastCall'.connection_id).last_sync
        /\ Stored(bank_connections', lastCall'.connection_id)
             # Stored(bank_connections, lastCall'.connection_id)]_vars

\* the visits of a finished sync of all accounts whose refresh failed
RefreshFailed(v) == v.refresh_sent # NULL /\ ~Accepted(v.refresh_response)

\* C11: when sync_all_accounts has run over the accounts of a connection A
\* with a valid token and of a connection B whose refresh fails, the loop
\* has visited every account, every account of A that synced is reported
\* as a success with its own count, and every account of B is reported as
\* a failure.
FailureIsolation ==
  (/\ batch.pc = "returned"
   /\ batch.results.success
   /\ \E i \in DOMAIN batch.visited : RefreshFailed(batch.visited[i]))
  => /\ Len(batch.visited) = batch.results.total_accounts
     /\ \A i \in DOMAIN batch.visited :
          LET v == batch.visited[i] IN
          /\ RefreshFailed(v) =>
                \E e \in batch.results.account_results :
                  e.name = v.name /\ ~e.success /\ e.transactions = 0
          /\ v.success =>
                \E e \in batch.results.account_results :
                  /\ e.name = v.name
                  /\ e.success
                  /\ e.transactions = v.num_transactions

\* C12: whatever the interleaving of two syncs of the same expired
\* connection, the token endpoint never receives the same refresh token in
\* two refresh calls.
RefreshSerialized ==
  \A i, j \in DOMAIN token_endpoint :
    token_endpoint[i] = token_endpoint[j] => i = j

\* a step that is a call of disconnect_bank
DisconnectStep == now' = now /\ batch' = batch /\ lastCall'.op = "disconnect"

\* C13: after disconnect(c) has succeeded the store holds no connection c,
\* no account of c and no transaction of an account that belonged to c, and
\* the connections, accounts and transactions of every other connection
\* are as they were.
DisconnectCascade ==
  [][(DisconnectStep /\ lastCall'.success)
     => LET c    == lastCall'.connection_id
            mine == {a.account_id : a \in {x \in bank_accounts :
                                             x.connection_id = c}}
        IN /\ \A x \in bank_connections' : x.connection_id # c
           /\ \A a \in bank_accounts' : a.connection_id # c
           /\ \A x \in transactions' : x.account_id \notin mine
           /\ bank_connections' =
                {x \in bank_connections : x.connection_id # c}
           /\ bank_accounts' = {a \in bank_accounts : a.connection_id # c}
           /\ transactions' = {x \in transactions : x.account_id \notin mine}]_vars

\* a disconnect has deleted a transaction and left the other connection
\* with its account and its transaction
DisconnectCascadeWitness ==
  /\ lastCall.op = "disconnect"
  /\ lastCall.success
  /\ lastCall.removed > 0
  /\ bank_connections # {}
  /\ \E x \in transactions : \E a \in bank_accounts :
       /\ a.account_id = x.account_id
       /\ a.connection_id # lastCall.connection_id

\* C14: in every state, after the connection was created and after every
\* refresh, the access_token and refresh_token columns of every connection
\* hold the ciphertext of the token under the key of the process, never the
\* token as it is.
TokensEncrypted ==
  \A c \in bank_connections :
    /\ c.access_token # Plaintext(c.access_token.token)
    /\ c.refresh_token # Plaintext(c.refresh_token.token)
    /\ c.access_token = encrypt(c.access_token.token)
    /\ c.refresh_token = encrypt(c.refresh_token.token)

\* a refresh has stored new tokens
TokensEncryptedWitness ==
  /\ lastCall.op = "sync"
  /\ Accepted(lastCall.refresh_response)
  /\ \E c \in bank_connections :
       /\ c.connection_id = lastCall.connection_id
       /\ c.access_token.token = "at2"
       /\ c.refresh_token.token = "rt2"

\* the token columns of the stored connections
StoredTokens ==
  {c.access_token : c \in bank_connections}
  \cup {c.refresh_token : c \in bank_connections}

LastSyncWrites(commits) ==
  {i \in DOMAIN commits :
     commits[i].statement \in {Stamped(NULL, NoTime).statement,
                               Replaced(NULL).statement}}
UpsertCommits(commits) ==
  {i \in DOMAIN commits : commits[i].statement = Upserted(NULL).statement}

\* C16: in a successful sync_account call last_sync is written exactly
\* once, to now, and that write comes after the committed upsert of every
\* transaction of the batch; no write of last_sync comes before an upsert.
WatermarkOrdering ==
  (lastCall.op = "sync" /\ lastCall.success)
  => LET commits == lastCall.commits IN
     /\ Cardinality(LastSyncWrites(commits)) = 1
     /\ \A i \in LastSyncWrites(commits) :
          /\ commits[i].last_sync = lastCall.window.to
          /\ \A j \in UpsertCommits(commits) : j < i
     /\ Cardinality(UpsertCommits(commits)) = Len(lastCall.outcome.results)

\* C17: when the process dies during sync_account, the store holds either
\* all of the call's upserts together with its write of last_sync, or none
\* of its writes.
CrashAtomicity ==
  lastCall.op = "crash"
  => \/ lastCall.commits = <<>>
     \/ /\ Cardinality(UpsertCommits(lastCall.commits))
            = Len(lastCall.outcome.results)
        /\ Cardinality(LastSyncWrites(lastCall.commits)) = 1

\* C18: a sync of account A leaves the stored transactions of every other
\* account as they were, also when the provider reports for A a
\* transaction id it has reported for another account.
PerAccountUpsert ==
  [][SyncStep
     => {x \in transactions' : x.account_id # lastCall'.account_id}
          = {x \in transactions : x.account_id # lastCall'.account_id}]_vars

\* C19: a connection is created from a callback only if the state of the
\* callback is the state that was put in the consent URL of the session; a
\* callback without a state or with another state creates no connection.
StateVerified ==
  [][bank_connections' # bank_connections
     => /\ session'.callback # None
        /\ session'.callback.state # NULL
        /\ session'.callback.state = session.state]_vars

\* the budgets other than the one of a user and a category
OtherBudgets(table, user_id, category) ==
  {x \in table : x.user_id # user_id \/ x.category # category}

\* C20: after every set_budget and delete_budget there is at most one
\* budget per (user, category); get_budgets(user) gives for a category the
\* amount and period of the set_budget just made and has no entry for a
\* category just deleted, and either call leaves the budgets of the other
\* users and categories as they were.
BudgetUniqueness ==
  [][LET user_id  == lastCall'.user_id
         category == lastCall'.category
     IN /\ \A x, y \in budgets' :
             (x.user_id = y.user_id /\ x.category = y.category) => x = y
        /\ OtherBudgets(budgets', user_id, category)
             = OtherBudgets(budgets, user_id, category)
        /\ lastCall'.op = "save_budget" =>
             /\ category \in DOMAIN get_budgets(budgets', user_id)
             /\ get_budgets(budgets', user_id)[category]
                  = [amount |-> lastCall'.amount, period |-> lastCall'.period]
        /\ lastCall'.op = "delete_budget" =>
             category \notin DOMAIN get_budgets(budgets', user_id)]_vars

\* a set_budget has replaced the budget of a category while the user has a
\* budget for another category and another user has one for the same
BudgetUniquenessWitness ==
  /\ lastCall.op = "save_budget"
  /\ lastCall.existed
  /\ Cardinality({x \in budgets : x.user_id = lastCall.user_id}) = 2
  /\ \E x \in budgets : /\ x.user_id # lastCall.user_id
                          /\ x.category = lastCall.category
                          /\ x.amount # lastCall.amount

\* the rows of the last categorize_transactions call that were open to the
\* keyword chain: the frame had no category column or the row held
\* "uncategorized"
Categorized ==
  IF lastCall.op # "categorize_transactions" THEN {}
  ELSE {idx \in DOMAIN lastCall.df.rows :
          \/ "category" \notin lastCall.df.columns
          \/ lastCall.df.rows[idx].category = uncategorized}

\* the first category of order one of whose keywords is in description
FirstBucket(order, description) ==
  LET hits == {i \in DOMAIN order :
                 AnyKeyword(description, KeywordsOfFrame(order[i]))}
  IN IF hits = {} THEN uncategorized
     ELSE order[CHOOSE i \in hits : \A j \in hits : i <= j]

FirstBucketWins(order) ==
  \A idx \in Categorized :
    lastCall.result.rows[idx].category =
      FirstBucket(order, Lower(lastCall.df.rows[idx].description))

\* C21: categorize lower-cases the description and returns the first
\* bucket, in the order groceries, dining, transport, shopping, housing,
\* utilities, entertainment, health, education, income, one of whose
\* keywords is a substring of it, and uncategorized when none matches.
CategorizationOrder ==
  FirstBucketWins(<<groceries, dining, transport, shopping, housing,
                    utilities, entertainment, health, education, income>>)

\* C21, amended: the order of the buckets is income, groceries, dining,
\* transport, shopping, housing, utilities, entertainment, health,
\* education; a description with a keyword of income and a keyword of
\* another bucket is categorised as income.
CategorizationIncomeFirst ==
  FirstBucketWins(<<income, groceries, dining, transport, shopping, housing,
                    utilities, entertainment, health, education>>)

\* a description in capitals with a keyword of income and one of groceries
CategorizationIncomeFirstWitness ==
  /\ lastCall.op = "categorize_transactions"
  /\ \E idx \in Categorized :
       LET description == lastCall.df.rows[idx].description
       IN /\ description # Lower(description)
          /\ AnyKeyword(Lower(description), IncomeKeywords)
          /\ AnyKeyword(Lower(description), GroceriesKeywordsOfFrame)
          /\ lastCall.result.rows[idx].category = income

\* the transactions a sync step has written: the rows stored under the keys
\* of its upsert commits
Written ==
  {x \in transactions' :
     \E i \in UpsertCommits(lastCall'.commits) :
       lastCall'.commits[i].key = x.transaction_id}

\* C22: during sync_account the keyword heuristic gives the category of a
\* fetched transaction only when the provider supplied none; a category the
\* provider supplied is the one stored (in lower case), whatever the
\* heuristic makes of the description.
HeuristicFillsGaps ==
  [][SyncStep =>
       \A x \in Written :
         LET raw == x.transaction_data IN
         /\ raw.category # NoText => x.category = Lower(raw.category)
         /\ raw.category = NoText
              => x.category = SyncHeuristic(Lower(raw.description))]_vars

\* a sync has stored a provider category that the heuristic would have
\* replaced, next to a row without one that holds the heuristic's category
HeuristicFillsGapsWitness ==
  /\ lastCall.op = "sync" /\ lastCall.success
  /\ \E x \in transactions :
       /\ x.transaction_data.category # NoText
       /\ x.category = Lower(x.transaction_data.category)
       /\ SyncHeuristic(Lower(x.transaction_data.description))
            \notin {uncategorized, x.category}
  /\ \E x \in transactions :
       /\ x.transaction_data.category = NoText
       /\ x.category = SyncHeuristic(Lower(x.transaction_data.description))

\* what sync_account_transactions returned to its caller
Returned(call) == <<call.success, call.num_transactions>>

\* the refresh request of the last sync was turned down by the provider
Rejected(endpoint) ==
  /\ endpoint # <<>>
  /\ endpoint[1] # RequestException
  /\ endpoint[1].status_code # 200
\* the refresh request of the last sync did not get an answer
Unreachable(endpoint) == endpoint # <<>> /\ endpoint[1] = RequestException

\* C23: a sync whose refresh the provider rejects (a status other than 2xx)
\* returns to its caller something else than a sync whose refresh request
\* fails for a network reason, so that the caller can tell reconnect-required
\* from retryable.
RefreshRejectionDistinct ==
  [][(/\ SyncStep
      /\ lastCall.op = "sync"
      /\ lastCall'.account_id = lastCall.account_id
      /\ Rejected(token_endpoint)
      /\ Unreachable(token_endpoint'))
     => Returned(lastCall') # Returned(lastCall)]_vars

\* what sync_account_transactions returns when it finds no connection
NoConnectionFound == <<FALSE, 0>>

\* the stored connections whose tokens the running process cannot decrypt
Undecryptable ==
  {c \in bank_connections :
     \/ decrypt(c.access_token) = DecryptionError
     \/ decrypt(c.refresh_token) = DecryptionError}

\* C24: a connection whose stored tokens cannot be decrypted is still
\* returned by the listing of the user's connections, and a sync of one of
\* its accounts reports something else than it reports when no connection
\* exists.
DecryptionFailureSurfaced ==
  /\ lastCall.op = "get_active_connections"
       => \A c \in Undecryptable :
            c.user_id = lastCall.user_id
              => \E i \in DOMAIN lastCall.connections :
                   lastCall.connections[i].connection_id = c.connection_id
  /\ (/\ lastCall.op = "sync"
      /\ \E c \in Undecryptable : c.connection_id = lastCall.connection_id)
       => Returned(lastCall) # NoConnectionFound

\* C25: the first non-forced sync of an account of a connection that
\* handle_auth_code has just created, no sync having run on it, asks the
\* provider for [now - 90d, now] and not for the 7-day look-back window.
FirstSyncWindow ==
  [][(/\ SyncStep
      /\ lastCall.op = "connect" /\ lastCall.success
      /\ ~lastCall'.force
      /\ lastCall'.window # None)
     => lastCall'.window = [from |-> now - Days(DefaultDays), to |-> now]]_vars

\* a step in which a thread's refresh stores the tokens it was given
RefreshSaveStep ==
  \E t \in Threads : threads[t].pc = "save" /\ threads'[t].pc = "fetch"

\* C26: a successful token refresh of a connection changes its access
\* token, refresh token and token expiry only: its last_sync, user id and
\* provider, the other connections, the accounts and the transactions are
\* as they were, so that the next non-forced sync starts from the last_sync
\* of before the refresh.
RefreshChangesOnlyCredentials ==
  [][RefreshSaveStep =>
       /\ \A c \in bank_connections :
            \E d \in bank_connections' :
              /\ d.connection_id = c.connection_id
              /\ d.user_id = c.user_id
              /\ d.provider = c.provider
              /\ d.last_sync = c.last_sync
       /\ Cardinality(bank_connections') = Cardinality(bank_connections)
       /\ bank_accounts' = bank_accounts
       /\ transactions' = transactions]_vars

\* C27: when the sync of an account has failed and a sync of another
\* account of the same connection has succeeded since, the next non-forced
\* sync of the first account asks for a window that starts no later than 7
\* days before that account's own last successful sync, or than 90 days
\* before now if it has had none.
SiblingSuccessKeepsWindow ==
  [][(/\ SyncStep
      /\ ~lastCall'.force
      /\ lastCall'.window # None
      /\ \E e \in history :
           e.account_id = lastCall'.account_id /\ e.failed /\ e.sibling)
     => \A e \in history :
          e.account_id = lastCall'.account_id
            => lastCall'.window.from <=
                 (IF e.at # NoTime THEN e.at - Days(LookBackDays)
                  ELSE now - Days(DefaultDays))]_vars

\* the transactions counted by the successful syncs among visited[i..]
RECURSIVE SyncedTransactions(_, _)
SyncedTransactions(visited, i) ==
  IF i > Len(visited) THEN 0
  ELSE (IF visited[i].success THEN visited[i].num_transactions ELSE 0)
       + SyncedTransactions(visited, i + 1)

\* the counters of a summary agree with what the syncs of the n accounts
\* returned
CountersConsistent(results, visited) ==
  /\ results.total_accounts = Len(visited)
  /\ results.successful_syncs + results.failed_syncs = results.total_accounts
  /\ results.successful_syncs
       = Cardinality({i \in DOMAIN visited : visited[i].success})
  /\ results.total_transactions = SyncedTransactions(visited, 1)

\* C28: in the summary of a sync of all n accounts, successful_syncs +
\* failed_syncs = total_accounts = n, total_transactions is the sum of the
\* counts of the successful syncs, and account_results has one entry per
\* account, n in all, also when two accounts have the same display name.
SummaryConsistency ==
  (batch.pc = "returned" /\ batch.results.success)
  => /\ CountersConsistent(batch.results, batch.visited)
     /\ Cardinality(batch.results.account_results) = Len(batch.visited)

\* C29: however a sync of an account and the disconnect of its connection
\* interleave, once both have completed the store holds no transaction
\* whose account is not in bank_accounts and no account whose connection is
\* not in bank_connections.
NoOrphans ==
  (\A t \in Threads : threads[t].pc = "idle")
  => /\ \A x \in transactions :
          \E a \in bank_accounts : a.account_id = x.account_id
     /\ \A a \in bank_accounts :
          \E c \in bank_connections : c.connection_id = a.connection_id

\* the positions of a call's commits that store refreshed tokens
TokenWrites(commits) ==
  {i \in DOMAIN commits : commits[i].statement = Replaced(NULL).statement}

\* C30: a sync_account call refreshes at most once, and only when the
\* connection's token_expiry is set and not after now; when token_expiry is
\* null or in the future the call sends no refresh, leaves the stored tokens
\* and token_expiry as they were and fetches with the stored access token.
RefreshOnlyWhenExpired ==
  [][SyncStep =>
       LET id     == lastCall'.connection_id
           before == Stored(bank_connections, id)
           after  == Stored(bank_connections', id)
       IN /\ Cardinality(TokenWrites(lastCall'.commits)) <= 1
          /\ (lastCall'.refresh_sent # NULL
                \/ TokenWrites(lastCall'.commits) # {})
               => Expired(bank_connections, id, now)
          /\ ~Expired(bank_connections, id, now)
               => /\ lastCall'.refresh_sent = NULL
                  /\ lastCall'.refresh_response = None
                  /\ after.access_token = before.access_token
                  /\ after.refresh_token = before.refresh_token
                  /\ after.token_expiry = before.token_expiry
                  /\ lastCall'.request # None
                  /\ lastCall'.request.access_token
                       = decrypt(before.access_token)]_vars

\* a sync has fetched without a refresh with a token that expires later,
\* and the stored token is the one the connection was made with
RefreshOnlyWhenExpiredWitness ==
  /\ lastCall.op = "sync"
  /\ lastCall.refresh_sent = NULL
  /\ lastCall.request # None
  /\ lastCall.request.access_token = "at1"
  /\ \E c \in bank_connections :
       /\ c.connection_id = lastCall.connection_id
       /\ c.token_expiry > now
       /\ decrypt(c.access_token) = "at1"

====
